---- MODULE Spec2Model ----
(***************************************************************************)
(* Instance lifecycle and seat reservation of the Edgegap fleet manager    *)
(* for Nakama: the persisted instance records, the create callback         *)
(* registry, the fabric's deployments, and the handlers that change them   *)
(* (Create, Join, Update, Delete and the three event handlers).            *)
(***************************************************************************)
EXTENDS Integers, Sequences, FiniteSets, TLC

\* ------------------------------------------------------------------ bounds
\* Number of Create calls: callback ids and request ids are 1..MaxCreates.
MaxCreates == 1
\* Longest list of user ids in a Create, a Join or a connection report.
MaxLen == 2

\* ------------------------------------------------------------------ inputs
Users == {"a", "b"}
Ids == 1..MaxCreates
CallbackIds == 1..MaxCreates
MaxPlayersValues == {-1, 0, 1, 2}
PlayerCountValues == {3}

RECURSIVE SeqsUpTo(_, _)
SeqsUpTo(S, n) ==
    IF n = 0 THEN {<<>>}
    ELSE LET shorter == SeqsUpTo(S, n - 1)
         IN shorter \cup {Append(s, x) : s \in {t \in shorter : Len(t) = n - 1}, x \in S}

UserLists == SeqsUpTo(Users, MaxLen)
\* The inputs of the lifecycle specification, where the seats are not the subject.
FewLists == SeqsUpTo({"a"}, MaxLen - 1)
FewMaxPlayers == {-1, 1}

\* ------------------------------------------------------------------ models.go, storage.go
EdgegapStatusRequested == "REQUESTED"
EdgegapStatusRunning == "RUNNING"
EdgegapStatusReady == "READY"
EdgegapStatusStopping == "STOPPING"
EdgegapStatusError == "ERROR"
EdgegapStatusUnknown == "UNKNOWN"

DeploymentStatusReady == "Status.READY"
DeploymentStatusError == "Status.ERROR"

InstanceEventStateReady == "READY"
InstanceEventStateError == "ERROR"
InstanceEventStateStop == "STOP"

\* The ledger kept under the metadata key "edgegap".
EdgegapInstanceInfo(maxPlayers, availableSeats, callbackId, reservations, reservationsCount, reservationsUpdatedAt, connections) ==
    [maxPlayers |-> maxPlayers, availableSeats |-> availableSeats, callbackId |-> callbackId,
     reservations |-> reservations, reservationsCount |-> reservationsCount,
     reservationsUpdatedAt |-> reservationsUpdatedAt, connections |-> connections]

\* A JSON value under "edgegap" that does not decode into the ledger struct.
Garbage == [garbage |-> TRUE]
\* What the JSON object {} decodes to: every field at its zero value
\* (the empty callback id "" is 0, the zero time is 0).
ZeroLedger == EdgegapInstanceInfo(0, 0, 0, <<>>, 0, 0, <<>>)

IsLedger(v) == "maxPlayers" \in DOMAIN v

\* ------------------------------------------------------------------ helpers/slice.go
Contains(slice, item) == \E i \in 1..Len(slice) : slice[i] = item

AppendIfNotExists(slice, item) ==
    IF Contains(slice, item) THEN slice ELSE Append(slice, item)

MergeMaps(m1, m2) ==
    [k \in (DOMAIN m1) \cup (DOMAIN m2) |-> IF k \in DOMAIN m2 THEN m2[k] ELSE m1[k]]

RECURSIVE RemoveElements(_, _)
RemoveElements(source, remove) ==
    IF source = <<>> THEN <<>>
    ELSE LET rest == RemoveElements(Tail(source), remove)
         IN IF Contains(remove, Head(source)) THEN rest ELSE <<Head(source)>> \o rest

\* ------------------------------------------------------------------ state
\* The calls that can be between their read of the store and their return.
MaxCalls == 2
Calls == 1..MaxCalls
\* The last value of the clock.
MaxTime == 3

VARIABLES
    store,          \* the _edgegap_instances collection: instance id -> InstanceInfo
    callbackMap,    \* callback ids registered and not yet invoked
    invoked,        \* callback id -> the statuses its handler was invoked with, in order
    nextCallback,   \* number of callback ids generated so far
    issued,         \* number of request ids the fabric has handed out
    deployments,    \* request ids of the deployments running on the fabric
    callbackOf,     \* request id -> the callback id its Create registered
    last,           \* the operation that ran last and what it did outside the store
    now,            \* the clock that time.Now() reads
    calls           \* the calls that have read the store and not yet returned

vars == <<store, callbackMap, invoked, nextCallback, issued, deployments,
          callbackOf, last, now, calls>>

\* runtime.InstanceInfo; connectionInfo is <<>> (nil) or a one-element sequence.
InstanceInfo(id, status, playerCount, connectionInfo, metadata) ==
    [id |-> id, status |-> status, playerCount |-> playerCount,
     connectionInfo |-> connectionInfo, metadata |-> metadata]

\* ------------------------------------------------------------------ storage.go
ExtractEdgegapInstance(instance) ==
    IF "edgegap" \in DOMAIN instance.metadata /\ IsLedger(instance.metadata["edgegap"])
    THEN [ok |-> TRUE, ei |-> instance.metadata["edgegap"]]
    ELSE [ok |-> FALSE, ei |-> ZeroLedger]
\* A seat count that applies the subtraction whatever maxPlayers is.
GetAvailableSeat_AlwaysSubtract(instance) ==
    LET edgegapInstance == ExtractEdgegapInstance(instance).ei
    IN edgegapInstance.maxPlayers - Len(edgegapInstance.reservations)
           - Len(edgegapInstance.connections)

\* GetAvailableSeat: the seats left, -1 unless maxPlayers is positive.
GetAvailableSeat(instance) ==
    LET edgegapInstance == ExtractEdgegapInstance(instance).ei
    IN IF edgegapInstance.maxPlayers > 0
       THEN edgegapInstance.maxPlayers - Len(edgegapInstance.reservations)
                - Len(edgegapInstance.connections)
       ELSE -1

\* A SyncInstance that leaves the player count as it finds it.
SyncInstance_KeepPlayerCount(instance) ==
    LET x == ExtractEdgegapInstance(instance)
        edgegapInstance == [x.ei EXCEPT !.availableSeats = GetAvailableSeat(instance),
                                        !.reservationsCount = Len(x.ei.reservations)]
    IN IF ~x.ok
       THEN [ok |-> FALSE, instance |-> instance]
       ELSE [ok |-> TRUE,
             instance |-> [instance EXCEPT !.metadata = MergeMaps(@, [k \in {"edgegap"} |-> edgegapInstance])]]

SyncInstance(instance) ==
    LET x == ExtractEdgegapInstance(instance)
        edgegapInstance == [x.ei EXCEPT !.availableSeats = GetAvailableSeat(instance),
                                        !.reservationsCount = Len(x.ei.reservations)]
    IN IF ~x.ok
       THEN [ok |-> FALSE, instance |-> instance]
       ELSE [ok |-> TRUE,
             instance |-> [instance EXCEPT !.playerCount = Len(x.ei.connections),
                                           !.metadata = MergeMaps(@, [k \in {"edgegap"} |-> edgegapInstance])]]

\* nk.StorageWrite of one instance under its id.
StorageWrite(st, instance) ==
    [k \in (DOMAIN st) \cup {instance.id} |-> IF k = instance.id THEN instance ELSE st[k]]

\* nk.StorageDelete of one key; deleting an absent key is not an error.
StorageDelete(st, id) == [k \in (DOMAIN st) \ {id} |-> st[k]]

\* A createDbInstance that persists the record without the given user ids.
createDbInstance_NoReservations(st, id, maxPlayers, userIds, callbackId, metadata, wfail) ==
    LET ledger == EdgegapInstanceInfo(maxPlayers, 0, callbackId, <<>>, 0, now, <<>>)
        instance == InstanceInfo(id, EdgegapStatusRequested, 0, <<>>,
                                 MergeMaps(metadata, [k \in {"edgegap"} |-> ledger]))
        synced == SyncInstance(instance)
    IN IF ~synced.ok \/ wfail
       THEN [ok |-> FALSE, store |-> st, instance |-> synced.instance]
       ELSE [ok |-> TRUE, store |-> StorageWrite(st, synced.instance), instance |-> synced.instance]

createDbInstance(st, id, maxPlayers, userIds, callbackId, metadata, wfail) ==
    LET ledger == EdgegapInstanceInfo(maxPlayers, 0, callbackId, userIds, 0, now, <<>>)
        instance == InstanceInfo(id, EdgegapStatusRequested, 0, <<>>,
                                 MergeMaps(metadata, [k \in {"edgegap"} |-> ledger]))
        synced == SyncInstance(instance)
    IN IF ~synced.ok \/ wfail
       THEN [ok |-> FALSE, store |-> st, instance |-> synced.instance]
       ELSE [ok |-> TRUE, store |-> StorageWrite(st, synced.instance), instance |-> synced.instance]

\* A getDbInstance that answers an id with no record with an empty instance.
getDbInstance_ZeroValue(st, id) ==
    IF id \in DOMAIN st THEN <<st[id]>>
    ELSE <<InstanceInfo(id, "", 0, <<>>, [k \in {"edgegap"} |-> ZeroLedger])>>

\* getDbInstance: <<>> is the (nil, nil) answer for an id with no record.
getDbInstance(st, id) == IF id \in DOMAIN st THEN <<st[id]>> ELSE <<>>

\* An update that writes the record as it is given, without SyncInstance.
updateDbInstance_NoSync(st, instance, wfail) ==
    IF ~ExtractEdgegapInstance(instance).ok \/ wfail
    THEN [ok |-> FALSE, store |-> st, instance |-> instance]
    ELSE [ok |-> TRUE, store |-> StorageWrite(st, instance), instance |-> instance]

updateDbInstance(st, instance, wfail) ==
    LET synced == SyncInstance(instance)
    IN IF ~synced.ok \/ wfail
       THEN [ok |-> FALSE, store |-> st, instance |-> synced.instance]
       ELSE [ok |-> TRUE, store |-> StorageWrite(st, synced.instance), instance |-> synced.instance]

\* ------------------------------------------------------------------ callback registry
\* runtime.FmCallbackHandler: the registry held by the Nakama runtime.
SetCallback(reg, callbackId) ==
    [reg EXCEPT !.callbackMap = @ \cup {callbackId}]

\* Looks the handler up, removes it and calls it; an unknown or already
\* invoked id is a no-op.
InvokeCallback(reg, callbackId, status, instance) ==
    IF callbackId \in reg.callbackMap
    THEN [callbackMap |-> reg.callbackMap \ {callbackId},
          invoked |-> [reg.invoked EXCEPT ![callbackId] = Append(@, status)],
          delivered |-> Append(reg.delivered,
                               [callbackId |-> callbackId, status |-> status, instance |-> instance])]
    ELSE reg

\* The registry as an operation finds it; delivered collects what the
\* operation hands to the handlers.
Registry == [callbackMap |-> callbackMap, invoked |-> invoked, delivered |-> <<>>]

\* ------------------------------------------------------------------ more inputs
EmptyMap == [k \in {} |-> "x"]
CreateMetadata == {[k \in {"mode", "region"} |-> IF k = "mode" THEN "casual" ELSE "eu"]}
\* Metadata of an instance-action report; "edgegap" is the key of the ledger.
ReportMetadata ==
    {EmptyMap,
     [k \in {"mode"} |-> "ranked"],
     [k \in {"edgegap"} |-> Garbage],
     [k \in {"edgegap"} |-> ZeroLedger]}
DeploymentStatuses == {DeploymentStatusReady, DeploymentStatusError, "Status.TERMINATED"}
InstanceActions == {"READY", "STOP", "ERROR", "error", "RESTART"}
\* deployment.Ports[PortName].External: 0 when the report has no such port.
ReportedPorts == {0, 31000}
\* Outcome of resolving the users' IP addresses, caller IP fallback included.
IpOutcomes == {"error", "none", "found"}
\* Answer of the fabric to a create request.
FabricOutcomes == {"error", "empty", "accepted"}

ToUpper(action) ==
    IF action = "error" THEN "ERROR" ELSE action

\* ------------------------------------------------------------------ record of the last operation
\* A call slot: free, or a call that has read the store and holds its copy of
\* the record (pc "read"), or the call that returned last from this slot
\* (pc "done"). overlaps are the slots whose calls ran while this one did.
NoCall ==
    [pc |-> "free", op |-> "", id |-> 0, userIds |-> <<>>, result |-> "",
     instance |-> <<>>, read |-> <<>>, stopping |-> FALSE, delivered |-> <<>>,
     overlaps |-> {}]

\* What the last operation was: its name, the instance id it named, its
\* result, the user ids it was given (a Join or a connection report), what
\* it delivered to callback handlers, whether it sent the fabric a stop
\* request, and how it relates to the operation before it.
NoOp ==
    [op |-> "Init", id |-> 0, result |-> "", userIds |-> <<>>, delivered |-> <<>>,
     stopIssued |-> FALSE, follows |-> ""]

Ran(op, id, result, userIds, delivered, stopIssued, follows) ==
    [op |-> op, id |-> id, result |-> result, userIds |-> userIds,
     delivered |-> delivered, stopIssued |-> stopIssued, follows |-> follows]

\* ------------------------------------------------------------------ edgegap_manager.go
\* A fabric call that reports success whatever happens to the request.
StopDeployment_AlwaysOk(deps, requestID, netfail) ==
    [ok |-> TRUE, deployments |-> deps \ {requestID}]

\* StopDeployment: a transport error or any answer other than 200/202 is an
\* error, the answer for a deployment the fabric no longer knows included.
StopDeployment(deps, requestID, netfail) ==
    IF ~netfail /\ requestID \in deps
    THEN [ok |-> TRUE, deployments |-> deps \ {requestID}]
    ELSE [ok |-> FALSE, deployments |-> deps]

\* ------------------------------------------------------------------ fleet_manager.go
CreateOutcome(maxPlayers, userIds, metadata, ips, fabric, wfail) ==
    LET callbackId == nextCallback + 1
        reg == SetCallback(Registry, callbackId)
        requestId == issued + 1
        created == createDbInstance(store, requestId, maxPlayers, userIds, callbackId, metadata, wfail)
        failed(result, accepted) ==
            [result |-> result, id |-> IF accepted THEN requestId ELSE 0, store |-> store,
             reg |-> InvokeCallback(reg, callbackId, "Error", <<>>), accepted |-> accepted]
    IN IF ips = "error" THEN failed("error_users", FALSE)
       ELSE IF ips = "none"
       THEN [result |-> "invalid_input", id |-> 0, store |-> store, reg |-> reg, accepted |-> FALSE]
       ELSE IF fabric = "error" THEN failed("error_fabric", FALSE)
       ELSE IF fabric = "empty" THEN failed("error_request_id", FALSE)
       ELSE IF ~created.ok THEN failed("error_store", TRUE)
       ELSE [result |-> "ok", id |-> requestId, store |-> created.store, reg |-> reg, accepted |-> TRUE]

Create(maxPlayers, userIds, metadata, ips, fabric, wfail) ==
    /\ nextCallback < MaxCreates
    /\ LET out == CreateOutcome(maxPlayers, userIds, metadata, ips, fabric, wfail)
       IN /\ store' = out.store
          /\ callbackMap' = out.reg.callbackMap
          /\ invoked' = out.reg.invoked
          /\ nextCallback' = nextCallback + 1
          /\ issued' = IF out.accepted THEN issued + 1 ELSE issued
          /\ deployments' = IF out.accepted THEN deployments \cup {out.id} ELSE deployments
          /\ callbackOf' = IF out.accepted THEN [callbackOf EXCEPT ![out.id] = nextCallback + 1]
                           ELSE callbackOf
          /\ last' = Ran("Create", out.id, out.result, <<>>, out.reg.delivered, FALSE, "")
          /\ UNCHANGED <<now, calls>>

\* A capacity test that already rejects the request that fills the instance.
JoinCapacityExceeded_AtCapacity(instance, edgegapInstance, userIds) ==
    instance.playerCount + Len(edgegapInstance.reservations) + Len(userIds)
        >= edgegapInstance.maxPlayers

\* The capacity check of Join.
JoinCapacityExceeded(instance, edgegapInstance, userIds) ==
    instance.playerCount + Len(edgegapInstance.reservations) + Len(userIds)
        > edgegapInstance.maxPlayers

\* The loop of Join that adds the users to the reservation list.
RECURSIVE JoinReservations(_, _)
JoinReservations(reservations, userIds) ==
    IF userIds = <<>> THEN reservations
    ELSE JoinReservations(AppendIfNotExists(reservations, Head(userIds)), Tail(userIds))

\* A Join that takes a request without user ids as it takes any other.
JoinOutcome_EmptyIsNoOp(id, userIds, wfail) ==
    LET found == getDbInstance(store, id)
        instance == found[1]
        x == ExtractEdgegapInstance(instance)
        edgegapInstance == [x.ei EXCEPT !.reservations = JoinReservations(@, userIds)]
        updated == updateDbInstance(store,
                       [instance EXCEPT !.metadata = MergeMaps(@, [k \in {"edgegap"} |-> edgegapInstance])],
                       wfail)
    IN IF id = 0 THEN [result |-> "invalid_id", store |-> store]
       ELSE IF found = <<>> THEN [result |-> "panic", store |-> store]
       ELSE IF ~x.ok THEN [result |-> "error_extract", store |-> store]
       ELSE IF x.ei.maxPlayers < 0 THEN [result |-> "ok", store |-> store]
       ELSE IF JoinCapacityExceeded(instance, x.ei, userIds)
       THEN [result |-> "capacity", store |-> store]
       ELSE IF ~updated.ok THEN [result |-> "error_store", store |-> store]
       ELSE [result |-> "ok", store |-> updated.store]

\* A Join that reserves seats on an instance without a player limit too.
JoinOutcome_UnlimitedReserves(id, userIds, wfail) ==
    LET found == getDbInstance(store, id)
        instance == found[1]
        x == ExtractEdgegapInstance(instance)
        edgegapInstance == [x.ei EXCEPT !.reservations = JoinReservations(@, userIds)]
        updated == updateDbInstance(store,
                       [instance EXCEPT !.metadata = MergeMaps(@, [k \in {"edgegap"} |-> edgegapInstance])],
                       wfail)
    IN IF id = 0 THEN [result |-> "invalid_id", store |-> store]
       ELSE IF Len(userIds) < 1 THEN [result |-> "invalid_users", store |-> store]
       ELSE IF found = <<>> THEN [result |-> "panic", store |-> store]
       ELSE IF ~x.ok THEN [result |-> "error_extract", store |-> store]
       ELSE IF x.ei.maxPlayers >= 0 /\ JoinCapacityExceeded(instance, x.ei, userIds)
       THEN [result |-> "capacity", store |-> store]
       ELSE IF ~updated.ok THEN [result |-> "error_store", store |-> store]
       ELSE [result |-> "ok", store |-> updated.store]

JoinOutcome(id, userIds, wfail) ==
    LET found == getDbInstance(store, id)
        instance == found[1]
        x == ExtractEdgegapInstance(instance)
        edgegapInstance == [x.ei EXCEPT !.reservations = JoinReservations(@, userIds)]
        updated == updateDbInstance(store,
                       [instance EXCEPT !.metadata = MergeMaps(@, [k \in {"edgegap"} |-> edgegapInstance])],
                       wfail)
    IN IF id = 0 THEN [result |-> "invalid_id", store |-> store]
       ELSE IF Len(userIds) < 1 THEN [result |-> "invalid_users", store |-> store]
       ELSE IF found = <<>> THEN [result |-> "panic", store |-> store]
       ELSE IF ~x.ok THEN [result |-> "error_extract", store |-> store]
       ELSE IF x.ei.maxPlayers < 0 THEN [result |-> "ok", store |-> store]
       ELSE IF JoinCapacityExceeded(instance, x.ei, userIds)
       THEN [result |-> "capacity", store |-> store]
       ELSE IF ~updated.ok THEN [result |-> "error_store", store |-> store]
       ELSE [result |-> "ok", store |-> updated.store]

Join(id, userIds, wfail) ==
    LET out == JoinOutcome(id, userIds, wfail)
    IN /\ store' = out.store
       /\ last' = Ran("Join", id, out.result, userIds, <<>>, FALSE, "")
       /\ UNCHANGED <<callbackMap, invoked, nextCallback, issued, deployments, callbackOf, now, calls>>

UpdateOutcome(id, playerCount, wfail) ==
    LET found == getDbInstance(store, id)
        updated == updateDbInstance(store, [found[1] EXCEPT !.playerCount = playerCount], wfail)
    IN IF found = <<>> THEN [result |-> "panic", store |-> store]
       ELSE IF ~updated.ok THEN [result |-> "error_store", store |-> store]
       ELSE [result |-> "ok", store |-> updated.store]

Update(id, playerCount, wfail) ==
    LET out == UpdateOutcome(id, playerCount, wfail)
    IN /\ store' = out.store
       /\ last' = Ran("Update", id, out.result, <<>>, <<>>, FALSE, "")
       /\ UNCHANGED <<callbackMap, invoked, nextCallback, issued, deployments, callbackOf, now, calls>>

Delete(id, netfail, wfail) ==
    LET stopped == StopDeployment(deployments, id, netfail)
        result == IF ~stopped.ok THEN "error_stop" ELSE IF wfail THEN "error_store" ELSE "ok"
    IN /\ store' = IF result = "ok" THEN StorageDelete(store, id) ELSE store
       /\ deployments' = stopped.deployments
       /\ last' = Ran("Delete", id, result, <<>>, <<>>, TRUE, "")
       /\ UNCHANGED <<callbackMap, invoked, nextCallback, issued, callbackOf, now, calls>>

\* ------------------------------------------------------------------ event_manager.go
ConnectionInfo(ipAddress, dnsName, port) ==
    [ipAddress |-> ipAddress, dnsName |-> dnsName, port |-> port]

\* A handler for which no deployment status is a bad state.
DeploymentBadState_Never(currentStatus) == FALSE

\* badState of handleDeploymentEvent: cleared by the Ready case alone.
DeploymentBadState(currentStatus) == currentStatus # DeploymentStatusReady

\* A switch whose Ready case sets the status without the connection info.
DeploymentTransition_NoConnectionInfo(instance, currentStatus, external) ==
    IF currentStatus = DeploymentStatusReady
    THEN [instance EXCEPT !.status = EdgegapStatusRunning]
    ELSE IF currentStatus = DeploymentStatusError
    THEN [instance EXCEPT !.status = EdgegapStatusError]
    ELSE [instance EXCEPT !.status = EdgegapStatusUnknown]

\* The switch of handleDeploymentEvent on deployment.CurrentStatus.
DeploymentTransition(instance, currentStatus, external) ==
    IF currentStatus = DeploymentStatusReady
    THEN [instance EXCEPT !.status = EdgegapStatusRunning,
                          !.connectionInfo = <<ConnectionInfo("198.51.100.7", "d.edgegap.net", external)>>]
    ELSE IF currentStatus = DeploymentStatusError
    THEN [instance EXCEPT !.status = EdgegapStatusError]
    ELSE [instance EXCEPT !.status = EdgegapStatusUnknown]

handleDeploymentEventOutcome(requestId, currentStatus, external, wfail) ==
    LET found == getDbInstance(store, requestId)
        instance == DeploymentTransition(found[1], currentStatus, external)
        badState == DeploymentBadState(currentStatus)
        x == ExtractEdgegapInstance(instance)
        reg == IF badState THEN InvokeCallback(Registry, x.ei.callbackId, "Error", <<>>)
               ELSE Registry
        updated == updateDbInstance(store, instance, wfail)
    IN IF found = <<>> THEN [result |-> "not_found", store |-> store, reg |-> Registry]
       ELSE IF badState /\ ~x.ok THEN [result |-> "error_extract", store |-> store, reg |-> Registry]
       ELSE IF ~updated.ok THEN [result |-> "error_store", store |-> store, reg |-> reg]
       ELSE [result |-> "ok", store |-> updated.store, reg |-> reg]

\* Whether this is a deployment error report that finds the instance in
\* REQUESTED, and whether its create callback is still registered.
FirstFabricError(requestId, currentStatus) ==
    IF /\ currentStatus = DeploymentStatusError
       /\ requestId \in DOMAIN store
       /\ store[requestId].status = EdgegapStatusRequested
    THEN IF callbackOf[requestId] \in callbackMap THEN "error_first" ELSE "error_late"
    ELSE ""

handleDeploymentEvent(requestId, currentStatus, external, wfail) ==
    LET out == handleDeploymentEventOutcome(requestId, currentStatus, external, wfail)
    IN /\ store' = out.store
       /\ callbackMap' = out.reg.callbackMap
       /\ invoked' = out.reg.invoked
       /\ last' = Ran("DeploymentEvent", requestId, out.result, <<>>, out.reg.delivered, FALSE,
                      FirstFabricError(requestId, currentStatus))
       /\ UNCHANGED <<nextCallback, issued, deployments, callbackOf, now, calls>>

\* A handler that keeps the reservations of the users reported as connected.
ApplyConnections_KeepReservations(edgegapInstance, connections) ==
    [edgegapInstance EXCEPT !.connections = connections,
                            !.reservationsUpdatedAt = now]

\* A handler that adds the reported connections to the ones it has.
ApplyConnections_Append(edgegapInstance, connections) ==
    [edgegapInstance EXCEPT !.reservations = RemoveElements(@, connections),
                            !.connections = @ \o connections,
                            !.reservationsUpdatedAt = now]

\* handleConnectionEvent on the ledger: reservations reported as connected
\* are removed, the connection list is replaced by the reported one.
ApplyConnections(edgegapInstance, connections) ==
    [edgegapInstance EXCEPT !.reservations = RemoveElements(@, connections),
                            !.connections = connections,
                            !.reservationsUpdatedAt = now]

\* A handler that takes a connection report as a sign that the instance runs.
handleConnectionEventOutcome_MarksRunning(instanceId, connections, wfail) ==
    LET found == getDbInstance(store, instanceId)
        instance == found[1]
        x == ExtractEdgegapInstance(instance)
        edgegapInstance == ApplyConnections(x.ei, connections)
        updated == updateDbInstance(store,
                       [instance EXCEPT !.status = EdgegapStatusRunning,
                                        !.metadata = MergeMaps(@, [k \in {"edgegap"} |-> edgegapInstance])],
                       wfail)
    IN IF found = <<>> THEN [result |-> "not_found", store |-> store]
       ELSE IF ~x.ok THEN [result |-> "error_extract", store |-> store]
       ELSE IF ~updated.ok THEN [result |-> "error_store", store |-> store]
       ELSE [result |-> "ok", store |-> updated.store]

handleConnectionEventOutcome(instanceId, connections, wfail) ==
    LET found == getDbInstance(store, instanceId)
        instance == found[1]
        x == ExtractEdgegapInstance(instance)
        edgegapInstance == ApplyConnections(x.ei, connections)
        updated == updateDbInstance(store,
                       [instance EXCEPT !.metadata = MergeMaps(@, [k \in {"edgegap"} |-> edgegapInstance])],
                       wfail)
    IN IF found = <<>> THEN [result |-> "not_found", store |-> store]
       ELSE IF ~x.ok THEN [result |-> "error_extract", store |-> store]
       ELSE IF ~updated.ok THEN [result |-> "error_store", store |-> store]
       ELSE [result |-> "ok", store |-> updated.store]

\* Whether this report repeats the report applied by the operation before it.
RepeatsLast(instanceId, connections) ==
    /\ last.op = "ConnectionEvent"
    /\ last.id = instanceId
    /\ last.userIds = connections
    /\ last.result = "ok"

handleConnectionEvent(instanceId, connections, wfail) ==
    LET out == handleConnectionEventOutcome(instanceId, connections, wfail)
    IN /\ store' = out.store
       /\ last' = Ran("ConnectionEvent", instanceId, out.result, connections, <<>>, FALSE,
                      IF RepeatsLast(instanceId, connections) THEN "repeat" ELSE "")
       /\ UNCHANGED <<callbackMap, invoked, nextCallback, issued, deployments, callbackOf, now, calls>>

\* A switch whose STOP case leaves the status as it is.
InstanceTransition_StopKeepsStatus(instance, action, metadata) ==
    IF ToUpper(action) = InstanceEventStateReady
    THEN [instance EXCEPT !.status = EdgegapStatusReady,
                          !.metadata = MergeMaps(@, metadata)]
    ELSE IF ToUpper(action) = InstanceEventStateStop
    THEN instance
    ELSE IF ToUpper(action) = InstanceEventStateError
    THEN [instance EXCEPT !.status = EdgegapStatusError]
    ELSE [instance EXCEPT !.status = EdgegapStatusUnknown]

\* The switch of handleInstanceEvent on the upper-cased action, without the
\* callback of the READY case.
InstanceTransition(instance, action, metadata) ==
    IF ToUpper(action) = InstanceEventStateReady
    THEN [instance EXCEPT !.status = EdgegapStatusReady,
                          !.metadata = MergeMaps(@, metadata)]
    ELSE IF ToUpper(action) = InstanceEventStateStop
    THEN [instance EXCEPT !.status = EdgegapStatusStopping]
    ELSE IF ToUpper(action) = InstanceEventStateError
    THEN [instance EXCEPT !.status = EdgegapStatusError]
    ELSE [instance EXCEPT !.status = EdgegapStatusUnknown]

\* A handler whose ERROR case resolves the create callback with Error.
handleInstanceEventOutcome_ErrorNotifies(instanceId, action, metadata, wfail, netfail) ==
    LET found == getDbInstance(store, instanceId)
        instance == InstanceTransition(found[1], action, metadata)
        ready == ToUpper(action) = InstanceEventStateReady
        failed == ToUpper(action) = InstanceEventStateError
        stopping == ToUpper(action) = InstanceEventStateStop
        x == ExtractEdgegapInstance(instance)
        reg == IF ready THEN InvokeCallback(Registry, x.ei.callbackId, "Success", <<instance>>)
               ELSE IF failed THEN InvokeCallback(Registry, x.ei.callbackId, "Error", <<>>)
               ELSE Registry
        updated == updateDbInstance(store, instance, wfail)
        stopped == StopDeployment(deployments, instanceId, netfail)
        none(result, r) == [result |-> result, store |-> store, reg |-> r,
                            deployments |-> deployments, stopIssued |-> FALSE]
    IN IF found = <<>> THEN none("not_found", Registry)
       ELSE IF (ready \/ failed) /\ ~x.ok THEN none("error_extract", Registry)
       ELSE IF ~updated.ok THEN none("error_store", reg)
       ELSE [result |-> IF stopping /\ ~stopped.ok THEN "error_stop" ELSE "ok",
             store |-> updated.store, reg |-> reg,
             deployments |-> IF stopping THEN stopped.deployments ELSE deployments,
             stopIssued |-> stopping]

\* A handler that sends the stop request whether or not the record was
\* written.
handleInstanceEventOutcome_StopsAnyway(instanceId, action, metadata, wfail, netfail) ==
    LET found == getDbInstance(store, instanceId)
        instance == InstanceTransition(found[1], action, metadata)
        ready == ToUpper(action) = InstanceEventStateReady
        stopping == ToUpper(action) = InstanceEventStateStop
        x == ExtractEdgegapInstance(instance)
        reg == IF ready THEN InvokeCallback(Registry, x.ei.callbackId, "Success", <<instance>>)
               ELSE Registry
        updated == updateDbInstance(store, instance, wfail)
        stopped == StopDeployment(deployments, instanceId, netfail)
        none(result, r) == [result |-> result, store |-> store, reg |-> r,
                            deployments |-> deployments, stopIssued |-> FALSE]
    IN IF found = <<>> THEN none("not_found", Registry)
       ELSE IF ready /\ ~x.ok THEN none("error_extract", Registry)
       ELSE [result |-> IF ~updated.ok THEN "error_store"
                        ELSE IF stopping /\ ~stopped.ok THEN "error_stop" ELSE "ok",
             store |-> IF updated.ok THEN updated.store ELSE store, reg |-> reg,
             deployments |-> IF stopping THEN stopped.deployments ELSE deployments,
             stopIssued |-> stopping]

handleInstanceEventOutcome(instanceId, action, metadata, wfail, netfail) ==
    LET found == getDbInstance(store, instanceId)
        instance == InstanceTransition(found[1], action, metadata)
        ready == ToUpper(action) = InstanceEventStateReady
        stopping == ToUpper(action) = InstanceEventStateStop
        x == ExtractEdgegapInstance(instance)
        reg == IF ready THEN InvokeCallback(Registry, x.ei.callbackId, "Success", <<instance>>)
               ELSE Registry
        updated == updateDbInstance(store, instance, wfail)
        stopped == StopDeployment(deployments, instanceId, netfail)
        none(result, r) == [result |-> result, store |-> store, reg |-> r,
                            deployments |-> deployments, stopIssued |-> FALSE]
    IN IF found = <<>> THEN none("not_found", Registry)
       ELSE IF ready /\ ~x.ok THEN none("error_extract", Registry)
       ELSE IF ~updated.ok THEN none("error_store", reg)
       ELSE [result |-> IF stopping /\ ~stopped.ok THEN "error_stop" ELSE "ok",
             store |-> updated.store, reg |-> reg,
             deployments |-> IF stopping THEN stopped.deployments ELSE deployments,
             stopIssued |-> stopping]

\* Whether this READY report comes right after a deployment error report
\* for the same instance that found it in REQUESTED.
FollowsFabricError(instanceId, action) ==
    IF /\ ToUpper(action) = InstanceEventStateReady
       /\ last.op = "DeploymentEvent"
       /\ last.id = instanceId
    THEN last.follows ELSE ""

\* What the record of an instance-action report tells beyond its result:
\* that the report asked to stop, or how a READY report relates to the
\* report before it.
InstanceEventFollows(instanceId, action) ==
    IF ToUpper(action) = InstanceEventStateStop THEN "stop"
    ELSE FollowsFabricError(instanceId, action)

handleInstanceEvent(instanceId, action, metadata, wfail, netfail) ==
    LET out == handleInstanceEventOutcome(instanceId, action, metadata, wfail, netfail)
    IN /\ store' = out.store
       /\ callbackMap' = out.reg.callbackMap
       /\ invoked' = out.reg.invoked
       /\ deployments' = out.deployments
       /\ last' = Ran("InstanceEvent", instanceId, out.result, <<>>, out.reg.delivered,
                      out.stopIssued, InstanceEventFollows(instanceId, action))
       /\ UNCHANGED <<nextCallback, issued, callbackOf, now, calls>>

\* ------------------------------------------------------------------ specification
Init ==
    /\ store = [k \in {} |-> "x"]
    /\ callbackMap = {}
    /\ invoked = [c \in CallbackIds |-> <<>>]
    /\ nextCallback = 0
    /\ issued = 0
    /\ deployments = {}
    /\ callbackOf = [i \in Ids |-> 0]
    /\ last = NoOp
    /\ now = 1
    /\ calls = [c \in Calls |-> NoCall]

\* The handlers, each with every input drawn from the given sets. The
\* metadata of a report is read by the READY case alone and the fabric is
\* called by the STOP case alone, so the other cases take one value of each;
\* the reported port is read by the Ready case alone.
NextOver(maxes, lists, statuses, actions, metas) ==
    \/ \E maxPlayers \in maxes, userIds \in lists, metadata \in CreateMetadata,
          ips \in IpOutcomes, fabric \in FabricOutcomes, wfail \in BOOLEAN :
          Create(maxPlayers, userIds, metadata, ips, fabric, wfail)
    \/ \E id \in Ids \cup {0}, userIds \in lists, wfail \in BOOLEAN :
          Join(id, userIds, wfail)
    \/ \E id \in Ids, playerCount \in PlayerCountValues, wfail \in BOOLEAN :
          Update(id, playerCount, wfail)
    \/ \E id \in Ids, netfail \in BOOLEAN, wfail \in BOOLEAN :
          Delete(id, netfail, wfail)
    \/ \E id \in Ids, currentStatus \in statuses, external \in ReportedPorts,
          wfail \in BOOLEAN :
          /\ currentStatus # DeploymentStatusReady => external = 0
          /\ handleDeploymentEvent(id, currentStatus, external, wfail)
    \/ \E id \in Ids, connections \in lists, wfail \in BOOLEAN :
          handleConnectionEvent(id, connections, wfail)
    \/ \E id \in Ids, action \in actions, metadata \in metas,
          wfail \in BOOLEAN, netfail \in BOOLEAN :
          /\ ToUpper(action) # InstanceEventStateReady => metadata = EmptyMap
          /\ ToUpper(action) # InstanceEventStateStop => ~netfail
          /\ handleInstanceEvent(id, action, metadata, wfail, netfail)

\* The lifecycle: every status, action and metadata, few users.
Next == NextOver(FewMaxPlayers, FewLists, DeploymentStatuses, InstanceActions, ReportMetadata)

Spec == Init /\ [][Next]_vars

\* The seats: every user list and capacity, and of the reports that change
\* the status those that leave the instance usable.
NextSeats ==
    NextOver(MaxPlayersValues, UserLists, {DeploymentStatusReady}, {InstanceEventStateReady},
             {EmptyMap, [k \in {"edgegap"} |-> ZeroLedger]})

SpecSeats == Init /\ [][NextSeats]_vars

\* Time passes between two operations.
Tick ==
    /\ now < MaxTime
    /\ now' = now + 1
    /\ UNCHANGED <<store, callbackMap, invoked, nextCallback, issued, deployments,
                   callbackOf, last, calls>>

\* The reservations over time: instances with seats, the reports that leave
\* them usable, and the clock.
NextClock ==
    \/ NextOver({1, 2}, FewLists, {DeploymentStatusReady}, {InstanceEventStateReady}, {EmptyMap})
    \/ Tick

SpecClock == Init /\ [][NextClock]_vars

\* ------------------------------------------------------------------ concurrent calls
\* Join, Update and the event handlers read the record, change their copy
\* and write it back; nk.StorageWrite is given no version, so the write is
\* unconditional. A call that reaches its write holds its copy in a slot of
\* calls between the two, and stays there after its return (pc "done", with
\* its arguments and result alone) until no call that ran beside it is left
\* running and a new call takes the slot; a call that returns before the
\* write is over at once and takes no slot. out is what the call did up to there: its result ("" while it
\* goes on), its copy of the record and the callback registry it leaves.
Returned(result) == [result |-> result, instance |-> <<>>, reg |-> Registry]

\* A slot a new call can take: a free one, or one whose call has returned
\* and ran beside no call that is still running.
Available(c) ==
    \/ calls[c].pc = "free"
    \/ /\ calls[c].pc = "done"
       /\ \A e \in calls[c].overlaps : calls[e].pc # "read"

Begin(op, id, userIds, out, stopping) ==
    /\ IF out.result # ""
       THEN /\ calls' = calls
            /\ last' = Ran(op, id, out.result, userIds, out.reg.delivered, FALSE, "")
       ELSE /\ \E c \in Calls :
                  /\ Available(c)
                  /\ \A d \in 1..(c - 1) : ~Available(d)
                  /\ calls' = [d \in Calls |->
                                  IF d = c
                                  THEN [pc |-> "read", op |-> op, id |-> id, userIds |-> userIds,
                                        result |-> "", instance |-> out.instance,
                                        read |-> getDbInstance(store, id), stopping |-> stopping,
                                        delivered |-> out.reg.delivered,
                                        overlaps |-> {e \in Calls \ {c} : calls[e].pc = "read"}]
                                  ELSE IF calls[d].pc = "read"
                                  THEN [calls[d] EXCEPT !.overlaps = @ \cup {c}]
                                  ELSE IF Available(d) THEN NoCall
                                  ELSE calls[d]]
            /\ last' = last
    /\ callbackMap' = out.reg.callbackMap
    /\ invoked' = out.reg.invoked
    /\ UNCHANGED <<store, nextCallback, issued, deployments, callbackOf, now>>

\* Join up to its call of updateDbInstanceSession.
JoinRead(id, userIds) ==
    LET found == getDbInstance(store, id)
        instance == found[1]
        x == ExtractEdgegapInstance(instance)
        edgegapInstance == [x.ei EXCEPT !.reservations = JoinReservations(@, userIds)]
    IN IF id = 0 THEN Returned("invalid_id")
       ELSE IF Len(userIds) < 1 THEN Returned("invalid_users")
       ELSE IF found = <<>> THEN Returned("panic")
       ELSE IF ~x.ok THEN Returned("error_extract")
       ELSE IF x.ei.maxPlayers < 0 THEN Returned("ok")
       ELSE IF JoinCapacityExceeded(instance, x.ei, userIds) THEN Returned("capacity")
       ELSE [result |-> "",
             instance |-> <<[instance EXCEPT !.metadata = MergeMaps(@, [k \in {"edgegap"} |-> edgegapInstance])]>>,
             reg |-> Registry]

\* Update up to its call of updateDbInstanceSession.
UpdateRead(id, playerCount) ==
    LET found == getDbInstance(store, id)
    IN IF found = <<>> THEN Returned("panic")
       ELSE [result |-> "", instance |-> <<[found[1] EXCEPT !.playerCount = playerCount]>>,
             reg |-> Registry]

\* handleConnectionEvent up to its call of updateDbInstance.
handleConnectionEventRead(instanceId, connections) ==
    LET found == getDbInstance(store, instanceId)
        instance == found[1]
        x == ExtractEdgegapInstance(instance)
        edgegapInstance == ApplyConnections(x.ei, connections)
    IN IF found = <<>> THEN Returned("not_found")
       ELSE IF ~x.ok THEN Returned("error_extract")
       ELSE [result |-> "",
             instance |-> <<[instance EXCEPT !.metadata = MergeMaps(@, [k \in {"edgegap"} |-> edgegapInstance])]>>,
             reg |-> Registry]

\* handleDeploymentEvent up to its call of updateDbInstance, the callback
\* of a bad state included.
handleDeploymentEventRead(requestId, currentStatus, external) ==
    LET found == getDbInstance(store, requestId)
        instance == DeploymentTransition(found[1], currentStatus, external)
        badState == DeploymentBadState(currentStatus)
        x == ExtractEdgegapInstance(instance)
    IN IF found = <<>> THEN Returned("not_found")
       ELSE IF badState /\ ~x.ok THEN Returned("error_extract")
       ELSE [result |-> "", instance |-> <<instance>>,
             reg |-> IF badState THEN InvokeCallback(Registry, x.ei.callbackId, "Error", <<>>)
                     ELSE Registry]

\* handleInstanceEvent up to its call of updateDbInstance, the callback of
\* the READY case included.
handleInstanceEventRead(instanceId, action, metadata) ==
    LET found == getDbInstance(store, instanceId)
        instance == InstanceTransition(found[1], action, metadata)
        ready == ToUpper(action) = InstanceEventStateReady
        x == ExtractEdgegapInstance(instance)
    IN IF found = <<>> THEN Returned("not_found")
       ELSE IF ready /\ ~x.ok THEN Returned("error_extract")
       ELSE [result |-> "", instance |-> <<instance>>,
             reg |-> IF ready THEN InvokeCallback(Registry, x.ei.callbackId, "Success", <<instance>>)
                     ELSE Registry]

JoinBegin(id, userIds) ==
    Begin("Join", id, userIds, JoinRead(id, userIds), FALSE)

UpdateBegin(id, playerCount) ==
    Begin("Update", id, <<>>, UpdateRead(id, playerCount), FALSE)

handleConnectionEventBegin(instanceId, connections) ==
    Begin("ConnectionEvent", instanceId, connections,
          handleConnectionEventRead(instanceId, connections), FALSE)

handleDeploymentEventBegin(requestId, currentStatus, external) ==
    Begin("DeploymentEvent", requestId, <<>>,
          handleDeploymentEventRead(requestId, currentStatus, external), FALSE)

handleInstanceEventBegin(instanceId, action, metadata) ==
    Begin("InstanceEvent", instanceId, <<>>,
          handleInstanceEventRead(instanceId, action, metadata),
          ToUpper(action) = InstanceEventStateStop)

\* A return that writes the copy of the call except for the connections,
\* which it takes from the record as stored at the time of the write.
Finish_KeepsStoredConnections(c, wfail, netfail) ==
    /\ calls[c].pc = "read"
    /\ LET call == calls[c]
           stored == ExtractEdgegapInstance(store[call.id]).ei.connections
           copy == IF call.op = "Join" /\ call.id \in DOMAIN store
                   THEN [call.instance[1] EXCEPT !.metadata["edgegap"].connections = stored]
                   ELSE call.instance[1]
           updated == updateDbInstance(store, copy, wfail)
           stopped == StopDeployment(deployments, call.id, netfail)
           stops == updated.ok /\ call.stopping
           result == IF ~updated.ok THEN "error_store"
                     ELSE IF call.stopping /\ ~stopped.ok THEN "error_stop" ELSE "ok"
       IN /\ store' = updated.store
          /\ deployments' = IF stops THEN stopped.deployments ELSE deployments
          /\ calls' = [calls EXCEPT ![c] = [NoCall EXCEPT !.pc = "done", !.op = call.op,
                                                          !.id = call.id, !.userIds = call.userIds,
                                                          !.result = result,
                                                          !.overlaps = call.overlaps]]
          /\ last' = Ran(call.op, call.id, result, call.userIds, call.delivered, stops, "")
    /\ UNCHANGED <<callbackMap, invoked, nextCallback, issued, callbackOf, now>>

\* The rest of a call: updateDbInstance on the copy the call holds, then the
\* stop request of a STOP report, then the return.
Finish(c, wfail, netfail) ==
    /\ calls[c].pc = "read"
    /\ LET call == calls[c]
           updated == updateDbInstance(store, call.instance[1], wfail)
           stopped == StopDeployment(deployments, call.id, netfail)
           stops == updated.ok /\ call.stopping
           result == IF ~updated.ok THEN "error_store"
                     ELSE IF call.stopping /\ ~stopped.ok THEN "error_stop" ELSE "ok"
       IN /\ store' = updated.store
          /\ deployments' = IF stops THEN stopped.deployments ELSE deployments
          /\ calls' = [calls EXCEPT ![c] = [NoCall EXCEPT !.pc = "done", !.op = call.op,
                                                          !.id = call.id, !.userIds = call.userIds,
                                                          !.result = result,
                                                          !.overlaps = call.overlaps]]
          /\ last' = Ran(call.op, call.id, result, call.userIds, call.delivered, stops, "")
    /\ UNCHANGED <<callbackMap, invoked, nextCallback, issued, callbackOf, now>>

\* The calls on one record, interleaved: instances with seats, one user
\* per Join, the reports that leave the instance usable.
ConcurrentLists == {<<"a">>, <<"b">>}

NextConcurrent ==
    \/ \E maxPlayers \in {1, 2}, metadata \in CreateMetadata :
          Create(maxPlayers, <<>>, metadata, "found", "accepted", FALSE)
    \/ \E id \in Ids, userIds \in ConcurrentLists : JoinBegin(id, userIds)
    \/ \E id \in Ids, playerCount \in PlayerCountValues : UpdateBegin(id, playerCount)
    \/ \E id \in Ids, connections \in ConcurrentLists :
          handleConnectionEventBegin(id, connections)
    \/ \E id \in Ids : handleDeploymentEventBegin(id, DeploymentStatusReady, 31000)
    \/ \E id \in Ids : handleInstanceEventBegin(id, InstanceEventStateReady, EmptyMap)
    \/ \E c \in Calls, wfail \in BOOLEAN : Finish(c, wfail, FALSE)

SpecConcurrent == Init /\ [][NextConcurrent]_vars

\* ------------------------------------------------------------------ properties
\* The ledger persisted for an instance.
Ledger(id) == store[id].metadata["edgegap"]

Range(seq) == {seq[i] : i \in 1..Len(seq)}

\* C1: for every instance with maxPlayers >= 0 (0 included) the persisted
\* availableSeats equals maxPlayers - |reservations| - |connections| right
\* after every Create, every successful Join and every applied connection
\* report.
C1_AvailableSeatsFormula ==
    (/\ last.op \in {"Create", "Join", "ConnectionEvent"}
     /\ last.result = "ok"
     /\ last.id \in DOMAIN store
     /\ Ledger(last.id).maxPlayers >= 0)
    => Ledger(last.id).availableSeats =
           Ledger(last.id).maxPlayers - Len(Ledger(last.id).reservations)
               - Len(Ledger(last.id).connections)

\* A step of Join on an existing instance with at least one user id; the
\* record of the operation names the instance and the user ids.
JoinStep ==
    /\ last'.op = "Join"
    /\ last'.id \in DOMAIN store
    /\ last'.userIds # <<>>

\* C2: every persisted instance with maxPlayers < 0 has availableSeats = -1,
\* and a Join that names an existing instance with maxPlayers < 0 and at
\* least one user id succeeds, whatever the reservations and connections.
C2_JoinStep ==
    (JoinStep /\ Ledger(last'.id).maxPlayers < 0) => last'.result = "ok"

C2_Unlimited ==
    /\ [](\A id \in DOMAIN store : Ledger(id).maxPlayers < 0 => Ledger(id).availableSeats = -1)
    /\ [][C2_JoinStep]_vars

C2_Witness ==
    /\ last.op = "Join"
    /\ last.result = "ok"
    /\ last.id \in DOMAIN store
    /\ Ledger(last.id).maxPlayers < 0
    /\ Ledger(last.id).availableSeats = -1
    /\ Len(Ledger(last.id).reservations) + Len(Ledger(last.id).connections) >= 3

\* C3: a Join with at least one user id on an instance with maxPlayers >= 0
\* is rejected for capacity exactly when playerCount + |reservations| +
\* |newUserIds| > maxPlayers, fails otherwise only if the store refuses the
\* write, and a rejected Join leaves the persisted record unchanged.
C3_JoinStep ==
    (JoinStep /\ Ledger(last'.id).maxPlayers >= 0)
    => LET id == last'.id
           over == store[id].playerCount + Len(Ledger(id).reservations) + Len(last'.userIds)
                       > Ledger(id).maxPlayers
       IN /\ (last'.result = "capacity") <=> over
          /\ last'.result \in {"ok", "capacity", "error_store"}
          /\ last'.result # "ok" => store' = store

C3_CapacityRejection == [][C3_JoinStep]_vars

C3_Witness ==
    /\ last.op = "Join"
    /\ last.result = "capacity"
    /\ last.id \in DOMAIN store
    /\ Ledger(last.id).maxPlayers = 2
    /\ Ledger(last.id).reservations = <<"a", "b">>
    /\ Ledger(last.id).connections = <<>>

\* C4: a Join whose request repeats a user id uses one seat per distinct id:
\* with k distinct ids and at least k seats free the Join is not rejected for
\* capacity, and after an accepted Join each of its ids is in reservations
\* exactly once.
C4_JoinStep ==
    (/\ JoinStep
     /\ Ledger(last'.id).maxPlayers >= 0
     /\ Cardinality(Range(last'.userIds)) <=
            Ledger(last'.id).maxPlayers - Len(Ledger(last'.id).reservations)
                - store[last'.id].playerCount)
    => /\ last'.result # "capacity"
       /\ last'.result = "ok" =>
              \A u \in Range(last'.userIds) :
                  LET after == store'[last'.id].metadata["edgegap"].reservations
                  IN Cardinality({i \in 1..Len(after) : after[i] = u}) = 1

C4_OneSeatPerDistinctId == [][C4_JoinStep]_vars

\* C5: the handler of a Create is invoked at most once over any sequence of
\* reports, and when a deployment error report that finds the instance as
\* Create left it (REQUESTED) is followed by a READY report for the same id,
\* the handler has been invoked exactly once, by the first of the two when
\* it was still pending (with Error), and the READY report delivers nothing.
C5_ExactlyOnce ==
    /\ \A c \in CallbackIds : Len(invoked[c]) <= 1
    /\ (last.op = "InstanceEvent" /\ last.follows \in {"error_first", "error_late"})
       => /\ Len(invoked[callbackOf[last.id]]) = 1
          /\ last.delivered = <<>>
          /\ last.follows = "error_first" => invoked[callbackOf[last.id]] = <<"Error">>

C5_Witness ==
    /\ last.op = "InstanceEvent"
    /\ last.follows = "error_first"
    /\ last.result = "ok"
    /\ store[last.id].status = EdgegapStatusReady
    /\ invoked[callbackOf[last.id]] = <<"Error">>

\* C6: when Create returns an error, the callback it registered has been
\* resolved with Error: it is no longer registered and Error was delivered
\* to it.
C6_FailedCreateResolved ==
    (last.op = "Create" /\ last.result # "ok")
    => /\ nextCallback \notin callbackMap
       /\ Len(last.delivered) = 1
       /\ last.delivered[1].callbackId = nextCallback
       /\ last.delivered[1].status = "Error"

\* C7: a READY report for an existing instance whose create callback is
\* pending (the store accepting the write) sets the persisted status to
\* READY, merges the report's metadata into the instance's (report keys
\* overwrite, other keys are kept) and delivers Success with the instance
\* record to that callback, once.
C7_ReadyStep ==
    (/\ last'.op = "InstanceEvent"
     /\ last'.id \in DOMAIN store
     /\ callbackOf[last'.id] \in callbackMap) =>
    \A metadata \in ReportMetadata :
        handleInstanceEvent(last'.id, InstanceEventStateReady, metadata, FALSE, FALSE)
        => LET id == last'.id
               after == store'[id]
           IN /\ after.status = EdgegapStatusReady
              /\ \A k \in DOMAIN metadata : after.metadata[k] = metadata[k]
              /\ \A k \in DOMAIN store[id].metadata \ DOMAIN metadata :
                     after.metadata[k] = store[id].metadata[k]
              /\ Len(last'.delivered) = 1
              /\ last'.delivered[1].callbackId = callbackOf[id]
              /\ last'.delivered[1].status = "Success"
              /\ Len(last'.delivered[1].instance) = 1
              /\ last'.delivered[1].instance[1].id = id
              /\ callbackOf[id] \notin callbackMap'

C7_ReadyResolves == [][C7_ReadyStep]_vars

\* What C8 says of a Create step; the record is claimed of every accepted
\* request, or of those alone whose record the store accepts.
CreateStep(evenIfRefused) ==
    last'.op = "Create" =>
    \A maxPlayers \in MaxPlayersValues, userIds \in UserLists, metadata \in CreateMetadata,
       ips \in IpOutcomes, fabric \in FabricOutcomes, wfail \in BOOLEAN :
        Create(maxPlayers, userIds, metadata, ips, fabric, wfail)
        => IF ips = "found" /\ fabric = "accepted"
           THEN (evenIfRefused \/ ~wfail) =>
                    LET id == issued + 1
                    IN /\ id \notin DOMAIN store
                       /\ DOMAIN store' = DOMAIN store \cup {id}
                       /\ \A i \in DOMAIN store : store'[i] = store[i]
                       /\ store'[id].id = id
                       /\ store'[id].status = EdgegapStatusRequested
                       /\ store'[id].metadata["edgegap"].reservations = userIds
                       /\ store'[id].metadata["edgegap"].connections = <<>>
                       /\ store'[id].playerCount = 0
                       /\ store'[id].connectionInfo = <<>>
           ELSE store' = store

\* C8 as stated: every Create that the fabric accepts persists exactly one
\* new record under the request id, REQUESTED, reservations the given
\* user ids, no connections, playerCount 0, no connectionInfo; a Create that
\* fails before or at the provisioning request persists nothing.
C8_AcceptedCreatePersists == [][CreateStep(TRUE)]_vars

\* C8, amended: the same of every Create that the fabric accepts and whose
\* record the store accepts.
C8_StoredCreatePersists == [][CreateStep(FALSE)]_vars

C8_Witness ==
    /\ last.op = "Create"
    /\ last.result = "ok"
    /\ last.id \in DOMAIN store
    /\ store[last.id].status = EdgegapStatusRequested
    /\ Ledger(last.id).reservations = <<"a", "b">>
    /\ Ledger(last.id).connections = <<>>

\* A step that applies a connection report.
ConnectionStep ==
    /\ last'.op = "ConnectionEvent"
    /\ last'.result = "ok"

\* C9: after a connection report is applied, connections is the reported
\* list, no reported id is in reservations, the reservations not reported
\* are kept in their order, and playerCount is the number reported.
C9_ConnectionStep ==
    ConnectionStep
    => LET id == last'.id
           reported == last'.userIds
           after == store'[id].metadata["edgegap"]
           Unreported(u) == u \notin Range(reported)
       IN /\ after.connections = reported
          /\ \A u \in Range(reported) : u \notin Range(after.reservations)
          /\ after.reservations = SelectSeq(Ledger(id).reservations, Unreported)
          /\ store'[id].playerCount = Len(reported)

C9_ReportReplaces == [][C9_ConnectionStep]_vars

C9_Witness ==
    /\ last.op = "ConnectionEvent"
    /\ last.result = "ok"
    /\ last.userIds = <<"a", "b">>
    /\ Ledger(last.id).reservations = <<>>
    /\ Ledger(last.id).connections = <<"a", "b">>
    /\ store[last.id].playerCount = 2

\* C10: applying a connection report right after the same report was
\* applied to the same instance leaves connections and reservations as the
\* first application left them.
C10_RepeatStep ==
    (ConnectionStep /\ last'.follows = "repeat")
    => /\ store'[last'.id].metadata["edgegap"].connections = Ledger(last'.id).connections
       /\ store'[last'.id].metadata["edgegap"].reservations = Ledger(last'.id).reservations

C10_ReportIdempotent == [][C10_RepeatStep]_vars

C10_Witness ==
    /\ last.op = "ConnectionEvent"
    /\ last.result = "ok"
    /\ last.follows = "repeat"
    /\ last.userIds = <<"a">>
    /\ Ledger(last.id).connections = <<"a">>
    /\ Ledger(last.id).reservations = <<"b">>

C12_UpdateStep ==
    (last'.op = "Update" /\ last'.result = "ok") =>
    \A playerCount \in PlayerCountValues :
        Update(last'.id, playerCount, FALSE) => store'[last'.id].playerCount = playerCount

C12_UpdatePersistsValue == [][C12_UpdateStep]_vars

\* C5, over any sequence of reports: when a READY report comes right after
\* a deployment error report was handled for the same instance, the handler
\* of the instance's Create has been invoked exactly once.
C5_ErrorThenReadyStep ==
    (/\ last.op = "DeploymentEvent"
     /\ last.result = "ok"
     /\ last.id \in DOMAIN store
     /\ store[last.id].status = EdgegapStatusError
     /\ last'.op = "InstanceEvent"
     /\ last'.id = last.id) =>
    \A metadata \in ReportMetadata, wfail \in BOOLEAN :
        handleInstanceEvent(last.id, InstanceEventStateReady, metadata, wfail, FALSE)
        => Len(invoked'[callbackOf[last.id]]) = 1

C5_AnySequenceExactlyOnce == [][C5_ErrorThenReadyStep]_vars

\* C13: a deployment report with status Ready for an existing instance (the
\* store accepting the write) sets the persisted status to RUNNING and
\* connectionInfo to the reported address and external port, and resolves
\* no callback; a report with status Error sets the persisted status to
\* ERROR and resolves a pending create callback of the instance with Error.
C13_DeploymentStep ==
    (last'.op = "DeploymentEvent" /\ last'.id \in DOMAIN store) =>
    LET id == last'.id
    IN /\ \A external \in ReportedPorts :
              handleDeploymentEvent(id, DeploymentStatusReady, external, FALSE)
              => /\ store'[id].status = EdgegapStatusRunning
                 /\ store'[id].connectionInfo =
                        <<ConnectionInfo("198.51.100.7", "d.edgegap.net", external)>>
                 /\ last'.delivered = <<>>
                 /\ callbackMap' = callbackMap
                 /\ invoked' = invoked
       /\ handleDeploymentEvent(id, DeploymentStatusError, 0, FALSE)
              => /\ store'[id].status = EdgegapStatusError
                 /\ callbackOf[id] \in callbackMap
                        => /\ callbackOf[id] \notin callbackMap'
                           /\ Len(last'.delivered) = 1
                           /\ last'.delivered[1].callbackId = callbackOf[id]
                           /\ last'.delivered[1].status = "Error"

C13_DeploymentReports == [][C13_DeploymentStep]_vars

\* Position of a status on the way REQUESTED, RUNNING, READY, STOPPING.
StatusRank(status) ==
    CASE status = EdgegapStatusRequested -> 0
      [] status = EdgegapStatusRunning -> 1
      [] status = EdgegapStatusReady -> 2
      [] status = EdgegapStatusStopping -> 3
      [] OTHER -> 4

\* C14: a report never moves the persisted status of an instance backwards
\* along REQUESTED, RUNNING, READY, STOPPING: READY and STOPPING are never
\* followed by RUNNING, nor STOPPING by READY.
C14_StatusStep ==
    \A id \in DOMAIN store \cap DOMAIN store' :
        StatusRank(store[id].status) < 4 =>
            StatusRank(store'[id].status) >= StatusRank(store[id].status)

C14_StatusMovesForward == [][C14_StatusStep]_vars

\* C15: a STOP report for an existing instance persists status STOPPING and
\* then sends the fabric the stop request for that id: the request is sent
\* exactly when the record was written, the record is STOPPING by then, and
\* it is still in the store when the handler returns, whatever the fabric
\* answers.
C15_StopStep ==
    (last'.op = "InstanceEvent" /\ last'.id \in DOMAIN store) =>
    \A wfail \in BOOLEAN, netfail \in BOOLEAN :
        handleInstanceEvent(last'.id, InstanceEventStateStop, EmptyMap, wfail, netfail)
        => /\ last'.id \in DOMAIN store'
           /\ last'.stopIssued <=> ~wfail
           /\ last'.stopIssued => store'[last'.id].status = EdgegapStatusStopping
           /\ ~last'.stopIssued => store' = store /\ deployments' = deployments
           /\ (~wfail /\ ~netfail /\ last'.id \in deployments)
                  => last'.result = "ok" /\ last'.id \notin deployments'

C15_StopPersistsThenStops == [][C15_StopStep]_vars

C15_Witness ==
    /\ last.op = "InstanceEvent"
    /\ last.stopIssued
    /\ last.result = "ok"
    /\ last.id \in DOMAIN store
    /\ store[last.id].status = EdgegapStatusStopping
    /\ last.id \notin deployments

\* The spellings of the action ERROR that the reports carry.
ErrorActions == {action \in InstanceActions : ToUpper(action) = InstanceEventStateError}

\* C16: an ERROR report for an existing instance sets the persisted status
\* to ERROR (the store accepting the write) and resolves no callback; a
\* callback is resolved with Error by a deployment report or by Create
\* alone.
C16_ErrorStep ==
    /\ (last'.op = "InstanceEvent" /\ last'.id \in DOMAIN store) =>
       \A action \in ErrorActions, wfail \in BOOLEAN :
           handleInstanceEvent(last'.id, action, EmptyMap, wfail, FALSE)
           => /\ ~wfail => store'[last'.id].status = EdgegapStatusError
              /\ last'.delivered = <<>>
              /\ callbackMap' = callbackMap
              /\ invoked' = invoked
    /\ \A c \in CallbackIds :
           (invoked'[c] # invoked[c] /\ invoked'[c][Len(invoked'[c])] = "Error")
           => last'.op \in {"DeploymentEvent", "Create"}

C17_ErrorStep ==
    (/\ last'.op = "InstanceEvent"
     /\ last'.id \in DOMAIN store
     /\ callbackOf[last'.id] \in callbackMap) =>
    \A action \in ErrorActions :
        handleInstanceEvent(last'.id, action, EmptyMap, FALSE, FALSE)
        => /\ store'[last'.id].status = EdgegapStatusError
           /\ Len(last'.delivered) = 1
           /\ last'.delivered[1].callbackId = callbackOf[last'.id]
           /\ callbackOf[last'.id] \notin callbackMap'

C17_InstanceErrorNotifies == [][C17_ErrorStep]_vars

\* C18: a Join with at least one user id that names an id with no persisted
\* record returns the error "instance not found", not the capacity error,
\* and leaves the store as it is.
C18_JoinStep ==
    (/\ last'.op = "Join"
     /\ last'.id \in Ids
     /\ last'.id \notin DOMAIN store
     /\ last'.userIds # <<>>)
    => /\ last'.result = "not_found"
       /\ store' = store

C18_JoinUnknownInstance == [][C18_JoinStep]_vars

\* C19: a Join without user ids on an existing instance returns the input
\* error and leaves the persisted record unchanged.
C19_JoinStep ==
    (/\ last'.op = "Join"
     /\ last'.id \in DOMAIN store
     /\ last'.userIds = <<>>)
    => /\ last'.result = "invalid_users"
       /\ store' = store

C19_JoinWithoutUsers == [][C19_JoinStep]_vars

C19_Witness ==
    /\ last.op = "Join"
    /\ last.id \in DOMAIN store
    /\ last.userIds = <<>>
    /\ last.result = "invalid_users"
    /\ Ledger(last.id).maxPlayers < 0

\* C20: a deployment, connection or instance-action report that names an id
\* with no persisted record makes its handler return the not-found error,
\* and the handler writes no record, resolves no callback and sends the
\* fabric no stop request.
C20_ReportStep ==
    (/\ last'.op \in {"DeploymentEvent", "ConnectionEvent", "InstanceEvent"}
     /\ last'.id \notin DOMAIN store)
    => /\ last'.result = "not_found"
       /\ store' = store
       /\ callbackMap' = callbackMap
       /\ invoked' = invoked
       /\ last'.delivered = <<>>
       /\ ~last'.stopIssued
       /\ deployments' = deployments

C20_ReportUnknownInstance == [][C20_ReportStep]_vars

C20_Witness ==
    /\ last.op = "InstanceEvent"
    /\ last.result = "not_found"
    /\ last.id \notin DOMAIN store
    /\ last.id \in deployments
    /\ ~last.stopIssued

\* C21: Delete sends the fabric the stop request before it touches the
\* store; when the request hard-fails Delete returns the error and the
\* persisted record is still there, and the record is removed only by a
\* Delete whose stop request succeeded.
C21_DeleteStep ==
    (last'.op = "Delete" /\ last'.id \in DOMAIN store) =>
    \A netfail \in BOOLEAN, wfail \in BOOLEAN :
        Delete(last'.id, netfail, wfail)
        => /\ last'.stopIssued
           /\ netfail => /\ last'.result = "error_stop"
                         /\ store' = store
           /\ store' # store => last'.result = "ok" /\ last'.id \notin deployments'

C21_DeleteStopsFirst == [][C21_DeleteStep]_vars

C21_Witness ==
    /\ last.op = "Delete"
    /\ last.result = "error_stop"
    /\ last.id \in DOMAIN store
    /\ last.id \in deployments

\* C22: when the deployment of an instance no longer exists on the fabric,
\* so that the fabric answers the stop request of Delete with an
\* already-gone result, Delete still removes the persisted record (the
\* store accepting the delete).
C22_DeleteStep ==
    (/\ last'.op = "Delete"
     /\ last'.id \in DOMAIN store
     /\ last'.id \notin deployments) =>
    (Delete(last'.id, FALSE, FALSE) => last'.id \notin DOMAIN store')

C22_DeleteCleansUp == [][C22_DeleteStep]_vars

\* C23: the callbackId in the ledger of every persisted record is the one
\* its Create stored, in every state.
C23_CallbackIdKept ==
    \A id \in DOMAIN store : Ledger(id).callbackId = callbackOf[id]

\* C24: no user id is both in reservations and in connections of a
\* persisted record (connections hold the users whose arrival a connection
\* report confirmed).
C24_ReservedOrConnected ==
    \A id \in DOMAIN store :
        Range(Ledger(id).reservations) \cap Range(Ledger(id).connections) = {}

\* C25: the reservations of every persisted record hold no user id twice.
C25_ReservationsAreASet ==
    \A id \in DOMAIN store :
        Cardinality(Range(Ledger(id).reservations)) = Len(Ledger(id).reservations)

\* C26: a connection report leaves the persisted status of the instance as
\* the handler found it, whatever that status is.
C26_ConnectionStep ==
    (last'.op = "ConnectionEvent" /\ last'.id \in DOMAIN store)
    => /\ last'.id \in DOMAIN store'
       /\ store'[last'.id].status = store[last'.id].status

C26_ConnectionKeepsStatus == [][C26_ConnectionStep]_vars

C26_Witness ==
    /\ last.op = "ConnectionEvent"
    /\ last.result = "ok"
    /\ last.id \in DOMAIN store
    /\ store[last.id].status = EdgegapStatusStopping
    /\ Ledger(last.id).connections = <<"a">>

\* The deployment statuses outside the two the handler knows.
OtherDeploymentStatuses == DeploymentStatuses \ {DeploymentStatusReady, DeploymentStatusError}

\* C27: a deployment report whose status is neither Ready nor Error, for an
\* existing instance (the store accepting the write), sets the persisted
\* status to UNKNOWN and resolves no callback.
C27_DeploymentStep ==
    (last'.op = "DeploymentEvent" /\ last'.id \in DOMAIN store) =>
    \A currentStatus \in OtherDeploymentStatuses :
        handleDeploymentEvent(last'.id, currentStatus, 0, FALSE)
        => /\ store'[last'.id].status = EdgegapStatusUnknown
           /\ last'.delivered = <<>>
           /\ callbackMap' = callbackMap
           /\ invoked' = invoked

C27_UnknownStatusKeepsCallback == [][C27_DeploymentStep]_vars

\* C28: when the store refuses the write of a STOP report for an existing
\* instance, the handler returns the error and sends the fabric no stop
\* request: the deployments are as they were.
C28_StopStep ==
    (/\ last'.op = "InstanceEvent"
     /\ last'.follows = "stop"
     /\ last'.id \in DOMAIN store) =>
    \A netfail \in BOOLEAN :
        handleInstanceEvent(last'.id, InstanceEventStateStop, EmptyMap, TRUE, netfail)
        => /\ last'.result = "error_store"
           /\ ~last'.stopIssued
           /\ deployments' = deployments
           /\ store' = store

C28_FailedWriteSendsNoStop == [][C28_StopStep]_vars

C28_Witness ==
    /\ last.op = "InstanceEvent"
    /\ last.follows = "stop"
    /\ last.result = "error_store"
    /\ ~last.stopIssued
    /\ last.id \in DOMAIN store
    /\ last.id \in deployments
    /\ store[last.id].status # EdgegapStatusStopping

\* C29: when the store refuses the write of a deployment or instance-action
\* report, the handler has left the persisted record unchanged and has
\* resolved no callback.
C29_FailedWriteStep ==
    (/\ last'.op \in {"DeploymentEvent", "InstanceEvent"}
     /\ last'.result = "error_store")
    => /\ store' = store
       /\ last'.delivered = <<>>
       /\ callbackMap' = callbackMap
       /\ invoked' = invoked

C29_FailedWriteNoSideEffect == [][C29_FailedWriteStep]_vars

\* C30: the connectionInfo of a persisted record is set by a handled
\* deployment report with status Ready and by nothing else (a record gets it
\* in a step of that handler that leaves it RUNNING, and is created without
\* it), and every record whose status is RUNNING has it.
C30_ConnectionInfoStep ==
    \A id \in DOMAIN store' :
        (/\ store'[id].connectionInfo # <<>>
         /\ id \in DOMAIN store => store[id].connectionInfo = <<>>)
        => /\ id \in DOMAIN store
           /\ last'.op = "DeploymentEvent"
           /\ last'.id = id
           /\ last'.result = "ok"
           /\ store'[id].status = EdgegapStatusRunning

C30_ConnectionInfoFromReady ==
    /\ [](\A id \in DOMAIN store :
              store[id].status = EdgegapStatusRunning => store[id].connectionInfo # <<>>)
    /\ [][C30_ConnectionInfoStep]_vars

C30_Witness ==
    /\ last.op = "DeploymentEvent"
    /\ last.result = "ok"
    /\ last.id \in DOMAIN store
    /\ store[last.id].status = EdgegapStatusRunning
    /\ store[last.id].connectionInfo = <<ConnectionInfo("198.51.100.7", "d.edgegap.net", 31000)>>

\* C31: reservationsUpdatedAt is stamped by every mutation of the
\* reservations: in every step of an operation that creates a record, changes
\* its reservations (a Join that adds an id included) or applies a connection
\* report to it, the persisted reservationsUpdatedAt is the time of that
\* operation.
C31_StampStep ==
    now' = now =>
    \A id \in DOMAIN store' :
        (\/ id \notin DOMAIN store
         \/ store'[id].metadata["edgegap"].reservations # store[id].metadata["edgegap"].reservations
         \/ (last'.op = "ConnectionEvent" /\ last'.id = id /\ last'.result = "ok"
             /\ last' # last))
        => store'[id].metadata["edgegap"].reservationsUpdatedAt = now

C31_StampedOnEveryMutation == [][C31_StampStep]_vars

\* C32: a Join on an existing instance with maxPlayers < 0 succeeds and
\* leaves the store as it was: nothing is written and the joining user ids
\* are not added to the reservations.
C32_JoinStep ==
    (JoinStep /\ Ledger(last'.id).maxPlayers < 0)
    => /\ last'.result = "ok"
       /\ store' = store

C32_UnlimitedJoinWritesNothing == [][C32_JoinStep]_vars

C32_Witness ==
    /\ last.op = "Join"
    /\ last.result = "ok"
    /\ last.id \in DOMAIN store
    /\ Ledger(last.id).maxPlayers < 0
    /\ \E u \in Range(last.userIds) : u \notin Range(Ledger(last.id).reservations)

\* C33: whenever a create callback is resolved with Success, the instance
\* handed to the handler has its connectionInfo, in whatever order the
\* deployment Ready report and the instance READY report arrive.
C33_SuccessHasConnectionInfo ==
    \A i \in 1..Len(last.delivered) :
        last.delivered[i].status = "Success"
        => /\ last.delivered[i].instance # <<>>
           /\ last.delivered[i].instance[1].connectionInfo # <<>>

\* C34: for every persisted instance with maxPlayers >= 0 the reservations
\* and the connections together never exceed maxPlayers, and availableSeats
\* is never negative.
C34_SeatsNeverOverbooked ==
    \A id \in DOMAIN store :
        Ledger(id).maxPlayers >= 0
        => /\ Len(Ledger(id).reservations) + Len(Ledger(id).connections) <= Ledger(id).maxPlayers
           /\ Ledger(id).availableSeats >= 0

\* Two calls that ran beside each other on the same record and have both
\* returned success, nothing having returned since.
BothReturned(c, d, opc, opd) ==
    /\ c # d
    /\ calls[c].pc = "done" /\ calls[d].pc = "done"
    /\ calls[c].op = opc /\ calls[d].op = opd
    /\ calls[c].result = "ok" /\ calls[d].result = "ok"
    /\ calls[c].id = calls[d].id
    /\ d \in calls[c].overlaps
    /\ calls[c].id \in DOMAIN store
    /\ last.op \in {opc, opd} /\ last.result = "ok" /\ last.id = calls[c].id

\* C35: when two Join calls on the same instance run concurrently and both
\* return success, the reservations persisted after both have returned
\* contain the user ids of both calls.
C35_ConcurrentJoinsKept ==
    \A c, d \in Calls :
        BothReturned(c, d, "Join", "Join")
        => (Range(calls[c].userIds) \cup Range(calls[d].userIds))
               \subseteq Range(Ledger(calls[c].id).reservations)

\* C36 as stated: when a Join and a connection report for the same instance
\* interleave and both return success, the connections persisted after both
\* have returned are the list of the report.
C36_ReportNeverOverwritten ==
    \A c, d \in Calls :
        BothReturned(c, d, "Join", "ConnectionEvent")
        => Ledger(calls[c].id).connections = calls[d].userIds

\* The return of call c with success, after call d, which ran beside it on
\* the same record, returned with success.
ReturnsAfter(c, d) ==
    /\ calls[c].pc = "read"
    /\ calls'[c].pc = "done"
    /\ calls'[c].result = "ok"
    /\ d \in calls[c].overlaps
    /\ calls[d].pc = "done"
    /\ calls[d].result = "ok"
    /\ calls[d].id = calls[c].id

\* C36: when a Join and a connection report for the same instance interleave
\* and both return success, the record persisted after both have returned is
\* the copy of the one that wrote last: its connections are the list of the
\* report when the report wrote last, and the connections the Join had read
\* when the Join wrote last.
C36_LastWriteStep ==
    \A c, d \in Calls :
        (/\ ReturnsAfter(c, d)
         /\ {calls[c].op, calls[d].op} = {"Join", "ConnectionEvent"})
        => store'[calls[c].id].metadata["edgegap"].connections =
               IF calls[c].op = "ConnectionEvent" THEN calls[c].userIds
               ELSE ExtractEdgegapInstance(calls[c].read[1]).ei.connections

C36_LastWriteWins == [][C36_LastWriteStep]_vars

C36_Witness ==
    \E c, d \in Calls :
        /\ BothReturned(c, d, "Join", "ConnectionEvent")
        /\ last.op = "Join"
        /\ Ledger(calls[c].id).connections # calls[d].userIds

\* C37: the write of a Join, an Update or a connection report never changes
\* the persisted status of the instance, even when a status-changing handler
\* has persisted a status between the read and the write of that call.
C37_WriteStep ==
    \A c \in Calls :
        (/\ calls[c].pc = "read"
         /\ calls'[c].pc = "done"
         /\ calls[c].op \in {"Join", "Update", "ConnectionEvent"}
         /\ calls[c].id \in DOMAIN store)
        => store'[calls[c].id].status = store[calls[c].id].status

C37_StatusNeverWrittenBack == [][C37_WriteStep]_vars

C39_AcceptedDeploymentHasRecord ==
    (/\ last.op = "Create"
     /\ last.id \in deployments
     /\ ~last.stopIssued)
    => last.id \in DOMAIN store

====
